---- MODULE Spec2Model ----
(***************************************************************************)
(* Model of main.go: the add-address / remove-address workflow run against *)
(* a Prism Central inventory.  Each run of the tool is a sequential        *)
(* process whose steps are the remote calls of main(); the inventory is    *)
(* the state shared by runs.                                               *)
(***************************************************************************)
EXTENDS Integers, Sequences, FiniteSets, TLC

VARIABLES vms, flags, pc, err, vmList, idx, vm, k, calls

vars == <<vms, flags, pc, err, vmList, idx, vm, k, calls>>

\* ---------------------------------------------------------------- bounds

\* Largest number of interfaces of the first VM of the inventory.
MaxNics == 2
\* Largest number of entries equal to 10.0.0.5 already in an address list.
MaxDup == 2

\* Run r1 is one invocation of the tool; r2 is a second invocation, with the
\* same command or the opposite one, that may run at the same time.
Runs == {"r1", "r2"}

\* ------------------------------------------------------- address strings

\* An address string is kept as its written form and its decimal fields, so
\* that two strings of one address ("10.0.0.5", "::ffff:10.0.0.5") differ.
Empty == [form |-> "empty", octets |-> <<>>]
Dotted(a, b, c, d) == [form |-> "v4", octets |-> <<a, b, c, d>>]
Mapped(a, b, c, d) == [form |-> "v4in6", octets |-> <<a, b, c, d>>]

NilIP == <<>>

\* net.ParseIP: the 4 bytes of the address, or nil when the string is no
\* address (the empty string, a field above 255).
ParseIP(s) ==
    IF /\ s.form \in {"v4", "v4in6"}
       /\ Len(s.octets) = 4
       /\ \A i \in 1..4 : s.octets[i] \in 0..255
    THEN s.octets
    ELSE NilIP

\* net.IP.Equal: byte-wise equality (two nil addresses have equal length 0).
IPEqual(x, y) == x = y

\* The i-th byte of the mask of a prefix length, applied to a byte.
MaskByte(b, prefix, i) ==
    LET bits == IF prefix >= 8 * i THEN 8
                ELSE IF prefix <= 8 * (i - 1) THEN 0
                ELSE prefix - 8 * (i - 1)
        unit == 2 ^ (8 - bits)
    IN (b \div unit) * unit

NilNet == [ok |-> FALSE, fam |-> 0, ip |-> <<>>, prefix |-> 0]

\* net.ParseCIDR(fmt.Sprintf("%s/%d", subnetIP, prefixLength)).
ParseCIDR(subnetIP, prefixLength) ==
    IF ParseIP(subnetIP) = NilIP THEN NilNet
    ELSE IF subnetIP.form = "v4"
    THEN IF prefixLength \in 0..32
         THEN [ok |-> TRUE, fam |-> 4,
               ip |-> <<MaskByte(ParseIP(subnetIP)[1], prefixLength, 1),
                        MaskByte(ParseIP(subnetIP)[2], prefixLength, 2),
                        MaskByte(ParseIP(subnetIP)[3], prefixLength, 3),
                        MaskByte(ParseIP(subnetIP)[4], prefixLength, 4)>>,
               prefix |-> prefixLength]
         ELSE NilNet
    ELSE IF prefixLength \in 0..128
         THEN [ok |-> TRUE, fam |-> 6, ip |-> <<>>, prefix |-> prefixLength]
         ELSE NilNet

\* net.IPNet.Contains: false for nil and for an address of the other family.
Contains(ipNet, ip) ==
    /\ ipNet.ok
    /\ ip # NilIP
    /\ ipNet.fam = 4
    /\ \A i \in 1..4 :
          MaskByte(ipNet.ip[i], ipNet.prefix, i) = MaskByte(ip[i], ipNet.prefix, i)

\* -------------------------------------------------------- the inventory

Inventory == <<"vm-a", "vm-b">>
UUIDs == {"vm-a", "vm-b"}

\* get-subnet results: spec.resources.ip_config of each subnet.
Subnets ==
    [s \in {"sub-1", "sub-2", "sub-bad"} |->
        CASE s = "sub-1" -> [subnetIP |-> Dotted(10, 0, 0, 0), prefixLength |-> 24]
          [] s = "sub-2" -> [subnetIP |-> Dotted(192, 168, 1, 0), prefixLength |-> 24]
          [] s = "sub-bad" -> [subnetIP |-> Dotted(10, 0, 0, 0), prefixLength |-> 33]]

SubnetNet(s) == ParseCIDR(Subnets[s].subnetIP, Subnets[s].prefixLength)

Endpoint(s, t) == [ip |-> s, type |-> t]

\* An address list holding 10.0.0.6 and d entries of 10.0.0.5, written in
\* alternating forms.
DupList(d) ==
    <<Endpoint(Dotted(10, 0, 0, 6), "ASSIGNED")>> \o
    [i \in 1..d |-> IF i % 2 = 1
                    THEN Endpoint(Dotted(10, 0, 0, 5), "ASSIGNED")
                    ELSE Endpoint(Mapped(10, 0, 0, 5), "LEARNED")]

Nic(s, ips) == [subnet |-> s, ips |-> ips]

NicChoices ==
    {Nic("sub-1", DupList(d)) : d \in 0..MaxDup} \cup
    {Nic("sub-1", <<>>), Nic("sub-2", <<>>), Nic("sub-bad", <<>>)}

\* The interfaces after the first are drawn from a smaller set.
TailChoices == {Nic("sub-1", DupList(1)), Nic("sub-2", <<>>), Nic("sub-bad", <<>>)}

NicLists ==
    UNION {{l \in [1..n -> NicChoices] : \A i \in 2..n : l[i] \in TailChoices} :
              n \in 0..MaxNics}

\* ------------------------------------------------------------ the flags

AddrArgs == {Empty, Dotted(10, 0, 0, 5), Mapped(10, 0, 0, 5),
             Dotted(192, 168, 1, 5), Dotted(10, 0, 0, 256)}

FlagChoices ==
    {f \in [nodeName : {"", "node-1", "node-3"}, add : AddrArgs, remove : AddrArgs] :
        \/ f.add = Empty
        \/ f.remove = Empty
        \/ f.add = f.remove}

\* The command that undoes f: its two address flags exchanged.
Opposite(f) == [nodeName |-> f.nodeName, add |-> f.remove, remove |-> f.add]

NoVM == [version |-> 0, nics |-> <<>>]

Init ==
    /\ \E nics \in NicLists, nameB \in {"node-1", "node-2"} :
          vms = [u \in UUIDs |->
                    IF u = "vm-a"
                    THEN [name |-> "node-1", version |-> 0, nics |-> nics]
                    ELSE [name |-> nameB, version |-> 0,
                          nics |-> <<Nic("sub-1", DupList(1))>>]]
    /\ \E f \in FlagChoices, second \in {"none", "same", "opposite"} :
          /\ flags = [r \in Runs |->
                         IF r = "r2" /\ second = "opposite" THEN Opposite(f) ELSE f]
          /\ pc = [r \in Runs |->
                      IF r = "r1" \/ second # "none" THEN "start" ELSE "idle"]
    /\ err = [r \in Runs |-> ""]
    /\ vmList = [r \in Runs |-> <<>>]
    /\ idx = [r \in Runs |-> 0]
    /\ vm = [r \in Runs |-> NoVM]
    /\ k = [r \in Runs |-> 0]
    /\ calls = [r \in Runs |-> <<>>]

\* ------------------------------------------------------- reconciliation

\* A variant of AddAddress that appends the entry without the ASSIGNED kind.
AddAddressWrongKind(ips, addr) == Append(ips, Endpoint(addr, "LEARNED"))

\* Lines 160-164: append the add-address with kind ASSIGNED.
AddAddress(ips, addr) == Append(ips, Endpoint(addr, "ASSIGNED"))

\* A variant of RemoveAddress that stops after the first equal entry.
RemoveFirstOnly(ips, addr) ==
    LET hits == {i \in 1..Len(ips) : IPEqual(ParseIP(ips[i].ip), ParseIP(addr))}
    IN IF hits = {} THEN ips
       ELSE LET h == CHOOSE i \in hits : \A j \in hits : i <= j
            IN SubSeq(ips, 1, h - 1) \o SubSeq(ips, h + 1, Len(ips))

\* A variant of RemoveAddress with the test inverted: it keeps the equal
\* entries and drops the others.
RemoveKeepsEqual(ips, addr) ==
    SelectSeq(ips, LAMBDA e : IPEqual(ParseIP(e.ip), ParseIP(addr)))

\* Lines 168-175: keep the entries whose parsed address differs.
RemoveAddress(ips, addr) ==
    SelectSeq(ips, LAMBDA e : ~IPEqual(ParseIP(e.ip), ParseIP(addr)))

\* Lines 158-176: what one pass of the interface loop does to an address
\* list, given the parsed CIDR of the interface's subnet.
Reconcile(ips, ipNet, f) ==
    LET added == IF f.add # Empty /\ Contains(ipNet, ParseIP(f.add))
                 THEN AddAddress(ips, f.add)
                 ELSE ips
    IN IF f.remove # Empty /\ Contains(ipNet, ParseIP(f.remove))
       THEN RemoveAddress(added, f.remove)
       ELSE added

\* A variant of the flag check that rejects the run with neither flag
\* instead of the run with both.
BothSetNeither(f) == f.add = Empty /\ f.remove = Empty

\* Line 80.
BothSet(f) == f.add # Empty /\ f.remove # Empty

\* Line 179.
ShouldUpdate(f) == f.remove # Empty \/ f.add # Empty

\* A variant of IntentOf that takes the metadata from the inventory at the
\* time of the update instead of from the VM as fetched.
IntentFreshMetadata(r) ==
    [version |-> vms[vmList[r][idx[r]].uuid].version, nics |-> vm[r].nics]

\* Lines 180-182: the intent carries the metadata and the spec of the VM as
\* this run fetched it (and mutated the spec).
IntentOf(r) == [version |-> vm[r].version, nics |-> vm[r].nics]

\* The remote system accepts an update only when the submitted version
\* token is the one it holds.
RemoteAccepts(u, intent) == intent.version = vms[u].version

Call(op, target, ok, version, nics) ==
    [op |-> op, target |-> target, ok |-> ok, version |-> version, nics |-> nics]

Log(r, c) == calls' = [calls EXCEPT ![r] = Append(@, c)]

\* A variant of Fatal that logs the condition and carries on at the same
\* step (a retry).
FatalRetry(r, e) ==
    /\ err' = [err EXCEPT ![r] = e]
    /\ UNCHANGED pc

\* klog.Fatal: the process logs the condition and exits.
Fatal(r, e) ==
    /\ pc' = [pc EXCEPT ![r] = "fatal"]
    /\ err' = [err EXCEPT ![r] = e]

Goto(r, l) ==
    /\ pc' = [pc EXCEPT ![r] = l]
    /\ UNCHANGED err

CurUUID(r) == vmList[r][idx[r]].uuid

\* ---------------------------------------------------------------- steps

\* Lines 75-82.
ParseFlags(r) ==
    /\ pc[r] = "start"
    /\ IF flags[r].nodeName = ""
       THEN Fatal(r, "NodeNameMissing")
       ELSE IF BothSet(flags[r])
            THEN Fatal(r, "InvalidArguments")
            ELSE Goto(r, "config")
    /\ UNCHANGED <<vms, flags, vmList, idx, vm, k, calls>>

\* Lines 84-113: the two configuration files and the client.
LoadConfig(r) ==
    /\ pc[r] = "config"
    /\ \E ok \in BOOLEAN :
          IF ok THEN Goto(r, "list") ELSE Fatal(r, "ConfigFailed")
    /\ UNCHANGED <<vms, flags, vmList, idx, vm, k, calls>>

\* Lines 117-120.
ListAllVM(r) ==
    /\ pc[r] = "list"
    /\ \E ok \in BOOLEAN :
          /\ Log(r, Call("ListAllVM", "", ok, 0, <<>>))
          /\ IF ok
             THEN /\ vmList' = [vmList EXCEPT ![r] =
                        [i \in 1..Len(Inventory) |->
                            [uuid |-> Inventory[i], name |-> vms[Inventory[i]].name]]]
                  /\ idx' = [idx EXCEPT ![r] = 1]
                  /\ Goto(r, "loop")
             ELSE /\ Fatal(r, "ListFailed")
                  /\ UNCHANGED <<vmList, idx>>
    /\ UNCHANGED <<vms, flags, vm, k>>

\* Lines 121-127 and 198-199: the head of the loop over the listing.
NextVM(r) ==
    /\ pc[r] = "loop"
    /\ IF idx[r] > Len(vmList[r])
       THEN Goto(r, "done") /\ UNCHANGED idx
       ELSE IF vmList[r][idx[r]].name # flags[r].nodeName
            THEN idx' = [idx EXCEPT ![r] = @ + 1] /\ UNCHANGED <<pc, err>>
            ELSE Goto(r, "getvm") /\ UNCHANGED idx
    /\ UNCHANGED <<vms, flags, vmList, vm, k, calls>>

\* Lines 134-139.
GetVM(r) ==
    /\ pc[r] = "getvm"
    /\ \E ok \in BOOLEAN :
          LET u == CurUUID(r) IN
          IF ok
          THEN /\ Log(r, Call("GetVM", u, TRUE, vms[u].version, vms[u].nics))
               /\ vm' = [vm EXCEPT ![r] =
                             [version |-> vms[u].version, nics |-> vms[u].nics]]
               /\ k' = [k EXCEPT ![r] = 1]
               /\ Goto(r, IF Len(vms[u].nics) = 0 THEN "submit" ELSE "getsubnet")
          ELSE /\ Log(r, Call("GetVM", u, FALSE, 0, <<>>))
               /\ Fatal(r, "GetVMFailed")
               /\ UNCHANGED <<vm, k>>
    /\ UNCHANGED <<vms, flags, vmList, idx>>

\* Lines 140-177: one pass of the loop over the VM's interfaces.
GetSubnet(r) ==
    /\ pc[r] = "getsubnet"
    /\ \E ok \in BOOLEAN :
          LET nic == vm[r].nics[k[r]]
              ipNet == SubnetNet(nic.subnet)
              got == Call("GetSubnet", nic.subnet, ok, 0, <<>>)
          IN
          IF ~ok
          THEN /\ Log(r, got)
               /\ Fatal(r, "SubnetLookupFailed")
               /\ UNCHANGED <<vm, k>>
          ELSE IF ~ipNet.ok
          THEN /\ calls' = [calls EXCEPT ![r] =
                      @ \o <<got, Call("ParseCIDR", nic.subnet, FALSE, 0, <<>>)>>]
               /\ Fatal(r, "MalformedSubnet")
               /\ UNCHANGED <<vm, k>>
          ELSE /\ Log(r, got)
               /\ vm' = [vm EXCEPT ![r].nics[k[r]].ips = Reconcile(@, ipNet, flags[r])]
               /\ k' = [k EXCEPT ![r] = @ + 1]
               /\ Goto(r, IF k[r] = Len(vm[r].nics) THEN "submit" ELSE "getsubnet")
    /\ UNCHANGED <<vms, flags, vmList, idx>>

\* Lines 179-197: the update, and the end of the loop body.
UpdateVM(r) ==
    /\ pc[r] = "submit"
    /\ IF ~ShouldUpdate(flags[r])
       THEN /\ idx' = [idx EXCEPT ![r] = @ + 1]
            /\ Goto(r, "loop")
            /\ UNCHANGED <<vms, calls>>
       ELSE \E ok \in BOOLEAN :
            LET u == CurUUID(r)
                intent == IntentOf(r)
                accepted == ok /\ RemoteAccepts(u, intent)
            IN
            /\ Log(r, Call("UpdateVM", u, accepted, intent.version, intent.nics))
            /\ IF accepted
               THEN /\ vms' = [vms EXCEPT ![u].nics = intent.nics,
                                          ![u].version = @ + 1]
                    /\ idx' = [idx EXCEPT ![r] = @ + 1]
                    /\ Goto(r, "loop")
               ELSE /\ Fatal(r, "UpdateRejected")
                    /\ UNCHANGED <<vms, idx>>
    /\ UNCHANGED <<flags, vmList, vm, k>>

Next ==
    \E r \in Runs :
        \/ ParseFlags(r)
        \/ LoadConfig(r)
        \/ ListAllVM(r)
        \/ NextVM(r)
        \/ GetVM(r)
        \/ GetSubnet(r)
        \/ UpdateVM(r)

Spec == Init /\ [][Next]_vars

\* ------------------------------------------------------------ properties

Ops(r, op) == {i \in 1..Len(calls[r]) : calls[r][i].op = op}

AddOnly(r) == flags[r].add # Empty /\ flags[r].remove = Empty
RemoveOnly(r) == flags[r].remove # Empty /\ flags[r].add = Empty

\* The interface's subnet CIDR contains the address written in s.
InSubnet(nic, s) == Contains(SubnetNet(nic.subnet), ParseIP(s))

\* The indexes of the entries of an address list whose parsed value is that
\* of s.
EqualEntries(ips, s) == {i \in 1..Len(ips) : ParseIP(ips[i].ip) = ParseIP(s)}

\* The index of the fetch of the VM that the call at index j of run r is
\* about: the last GetVM at or before j.
FetchBefore(r, j) == CHOOSE i \in Ops(r, "GetVM") :
                        /\ i <= j
                        /\ \A h \in Ops(r, "GetVM") : h <= j => h <= i

\* The accepted updates of run r for the VM fetched at index i.
UpdatesAfter(r, i) ==
    {j \in Ops(r, "UpdateVM") :
        /\ j > i
        /\ calls[r][j].ok
        /\ calls[r][j].target = calls[r][i].target}

\* C1: in a run with only --add-address that completes with every call
\* succeeding, each fetched VM with an interface whose subnet contains the
\* address gets an update call, and the spec submitted has on each such
\* interface an entry with the add-address as value and kind ASSIGNED.
C1_AddSubmitted ==
    \A r \in Runs :
        (pc[r] = "done" /\ AddOnly(r)) =>
            \A i \in Ops(r, "GetVM") :
                LET g == calls[r][i] IN
                (\E n \in 1..Len(g.nics) : InSubnet(g.nics[n], flags[r].add)) =>
                    \E j \in UpdatesAfter(r, i) :
                        \A n \in 1..Len(g.nics) :
                            InSubnet(g.nics[n], flags[r].add) =>
                                \E e \in 1..Len(calls[r][j].nics[n].ips) :
                                    calls[r][j].nics[n].ips[e] =
                                        [ip |-> flags[r].add, type |-> "ASSIGNED"]

C1_Witness ==
    \E r \in Runs :
        /\ pc[r] = "done" /\ AddOnly(r)
        /\ \E i \in Ops(r, "GetVM") :
              /\ \E n \in 1..Len(calls[r][i].nics) :
                    /\ InSubnet(calls[r][i].nics[n], flags[r].add)
                    /\ EqualEntries(calls[r][i].nics[n].ips, flags[r].add) = {}
              /\ UpdatesAfter(r, i) # {}

\* C2: in a run with only --remove-address that completes with every call
\* succeeding, each fetched VM gets an update call, and in the spec
\* submitted no interface whose subnet contains the address keeps an entry
\* whose parsed value equals it.
C2_RemoveSubmitted ==
    \A r \in Runs :
        (pc[r] = "done" /\ RemoveOnly(r)) =>
            \A i \in Ops(r, "GetVM") :
                \E j \in UpdatesAfter(r, i) :
                    \A n \in 1..Len(calls[r][j].nics) :
                        InSubnet(calls[r][j].nics[n], flags[r].remove) =>
                            EqualEntries(calls[r][j].nics[n].ips, flags[r].remove) = {}

C2_Witness ==
    \E r \in Runs :
        /\ pc[r] = "done" /\ RemoveOnly(r)
        /\ \E i \in Ops(r, "GetVM") :
              /\ \E n \in 1..Len(calls[r][i].nics) :
                    /\ InSubnet(calls[r][i].nics[n], flags[r].remove)
                    /\ Cardinality(EqualEntries(calls[r][i].nics[n].ips,
                                                flags[r].remove)) >= 2
              /\ UpdatesAfter(r, i) # {}

\* C3: update-VM is invoked only when at least one interface's address list
\* was mutated: the spec of every update call differs from the spec fetched.
C3_UpdateOnlyIfMutated ==
    \A r \in Runs :
        \A j \in Ops(r, "UpdateVM") :
            calls[r][j].nics # calls[r][FetchBefore(r, j)].nics

\* C4: add is idempotent: in every accepted update of a run with only
\* --add-address, each interface whose subnet contains the address holds it
\* exactly once, with kind ASSIGNED.
C4_AddExactlyOnce ==
    \A r \in Runs :
        AddOnly(r) =>
            \A j \in Ops(r, "UpdateVM") :
                calls[r][j].ok =>
                    \A n \in 1..Len(calls[r][j].nics) :
                        LET nic == calls[r][j].nics[n]
                            eq == EqualEntries(nic.ips, flags[r].add)
                        IN InSubnet(nic, flags[r].add) =>
                              /\ Cardinality(eq) = 1
                              /\ \A e \in eq : nic.ips[e].type = "ASSIGNED"

\* C5: a run with both --add-address and --remove-address non-empty fails
\* before any remote call: it makes no call and never gets past the flag
\* check.
C5_BothFlagsNoCall ==
    \A r \in Runs :
        (flags[r].add # Empty /\ flags[r].remove # Empty) =>
            /\ calls[r] = <<>>
            /\ pc[r] \in {"idle", "start", "fatal"}
            /\ pc[r] = "fatal" => err[r] \in {"NodeNameMissing", "InvalidArguments"}

C5_Witness ==
    \E r \in Runs :
        /\ flags[r].add # Empty /\ flags[r].remove # Empty
        /\ pc[r] = "fatal" /\ err[r] = "InvalidArguments"

\* C6: only the first VM of the listing whose name is --node-name is
\* processed: every GetVM and UpdateVM call of a run is for that VM, and a
\* run makes at most one UpdateVM call.
C6_OnlyFirstMatch ==
    \A r \in Runs :
        LET matches == {i \in 1..Len(vmList[r]) : vmList[r][i].name = flags[r].nodeName}
            first == CHOOSE i \in matches : \A h \in matches : i <= h
        IN /\ \A j \in Ops(r, "GetVM") \cup Ops(r, "UpdateVM") :
                calls[r][j].target = vmList[r][first].uuid
           /\ Cardinality(Ops(r, "UpdateVM")) <= 1

\* C7: when no VM of the listing is named --node-name the run does not
\* complete as a success.
C7_NotFoundFails ==
    \A r \in Runs :
        pc[r] = "done" =>
            \E i \in 1..Len(vmList[r]) : vmList[r][i].name = flags[r].nodeName

\* C8: in a run with only --remove-address, when no entry of any interface
\* of the VM as fetched has the parsed value of the address, the run's copy
\* of the VM keeps every address list as fetched, and so does every spec it
\* submits; a run that ends in failure then ends on a failed call, never in
\* the reconciliation.
C8_RemoveAbsentNoOp ==
    \A r \in Runs :
        (RemoveOnly(r) /\ Ops(r, "GetVM") # {}) =>
            LET g == calls[r][FetchBefore(r, Len(calls[r]))] IN
            (g.ok /\ \A n \in 1..Len(g.nics) :
                        EqualEntries(g.nics[n].ips, flags[r].remove) = {}) =>
                /\ vm[r].nics = g.nics
                /\ \A j \in Ops(r, "UpdateVM") :
                      j > FetchBefore(r, Len(calls[r])) => calls[r][j].nics = g.nics
                /\ pc[r] = "fatal" => ~calls[r][Len(calls[r])].ok

C8_Witness ==
    \E r \in Runs :
        /\ RemoveOnly(r) /\ Ops(r, "GetVM") # {}
        /\ pc[r] = "submit"
        /\ LET g == calls[r][FetchBefore(r, Len(calls[r]))] IN
              /\ \A n \in 1..Len(g.nics) :
                    EqualEntries(g.nics[n].ips, flags[r].remove) = {}
              /\ \E n \in 1..Len(g.nics) :
                    /\ InSubnet(g.nics[n], flags[r].remove)
                    /\ g.nics[n].ips # <<>>

C10_NoLostUpdate ==
    \A r \in Runs : \A s \in Runs \ {r} :
        \A a \in Ops(r, "UpdateVM") : \A b \in Ops(s, "UpdateVM") :
            (/\ calls[r][a].target = calls[s][b].target
             /\ calls[r][FetchBefore(r, a)].version = calls[s][FetchBefore(s, b)].version
             /\ calls[r][a].ok) =>
                /\ ~calls[s][b].ok
                /\ pc[s] = "fatal"
                /\ err[s] = "UpdateRejected"

C10_Witness ==
    \E r \in Runs : \E s \in Runs \ {r} :
        \E a \in Ops(r, "UpdateVM") : \E b \in Ops(s, "UpdateVM") :
            /\ calls[r][a].target = calls[s][b].target
            /\ calls[r][FetchBefore(r, a)].version = calls[s][FetchBefore(s, b)].version
            /\ calls[r][a].ok
            /\ ~calls[s][b].ok
            /\ calls[s][b].version < vms[calls[s][b].target].version
            /\ calls[s][b].nics # calls[r][a].nics

====
